---- MODULE Spec2Model ----
(***************************************************************************)
(* Token lifecycle and authenticated-request retry logic of the GeoProx    *)
(* mobile client: frontend/utils/tokenManager.ts (storage, TokenManager)   *)
(* and frontend/utils/apiClient.ts (apiClient.fetch).                      *)
(*                                                                         *)
(* Every `await` of the code is a suspension point; the code between two   *)
(* awaits runs as one step.  The four setItem / deleteItem calls that a    *)
(* Promise.all starts are four independent storage operations: each one    *)
(* lands on its own, in any order, and may fail.                           *)
(***************************************************************************)
EXTENDS Integers, Sequences, FiniteSets, TLC

(***************************************************************************)
(* Bounds of the model.                                                    *)
(***************************************************************************)
\* credential pairs the backend issues in one run (login pair included)
MaxGen == 3
\* storage operations that fail in one run
MaxFail == 1
\* apiClient.fetch calls started in one run
MaxCalls == 2

Callers == {1, 2}

(***************************************************************************)
(* Strings are sequences of one-character strings.  A value that may be    *)
(* null (a getItem result, a stored item) is <<>> for null and <<s>> for   *)
(* the string s.  A JavaScript number is <<n>>, and <<>> is NaN.           *)
(***************************************************************************)
ACCESS_TOKEN_KEY == "access_token"
REFRESH_TOKEN_KEY == "refresh_token"
TOKEN_EXPIRY_KEY == "token_expiry"
REFRESH_EXPIRY_KEY == "refresh_expiry"
Keys == {ACCESS_TOKEN_KEY, REFRESH_TOKEN_KEY, TOKEN_EXPIRY_KEY, REFRESH_EXPIRY_KEY}

null == <<>>
Some(s) == <<s>>
NaN == <<>>
Num(n) == <<n>>
IsNaN(x) == x = <<>>

DigitChars == <<"0", "1", "2", "3", "4", "5", "6", "7", "8", "9">>
IsDigit(c) == \E i \in 1..10 : DigitChars[i] = c
DigitOf(c) == (CHOOSE i \in 1..10 : DigitChars[i] = c) - 1

\* the member of a parsed JSON body that is null (a pair, so that it is no
\* number); an absent member reads as undefined, whose number is NaN
jsonNull == <<0, 0>>
\* ToNumber of a number, of undefined (NaN) and of null (+0)
ToNumber(v) == IF v = jsonNull THEN Num(0) ELSE v

\* JavaScript arithmetic on numbers: NaN is absorbing, comparisons with NaN are false
Times(x, y) ==
    LET a == ToNumber(x)
        b == ToNumber(y)
    IN  IF IsNaN(a) \/ IsNaN(b) THEN NaN ELSE Num(a[1] * b[1])
Plus(x, y) == IF IsNaN(x) \/ IsNaN(y) THEN NaN ELSE Num(x[1] + y[1])
Minus(x, y) == IF IsNaN(x) \/ IsNaN(y) THEN NaN ELSE Num(x[1] - y[1])
Geq(x, y) == ~IsNaN(x) /\ ~IsNaN(y) /\ x[1] >= y[1]

\* Number.prototype.toString of an integer or NaN
RECURSIVE Decimal(_)
Decimal(n) ==
    IF n < 10 THEN <<DigitChars[n + 1]>>
    ELSE Append(Decimal(n \div 10), DigitChars[(n % 10) + 1])
toString(x) ==
    IF IsNaN(x) THEN <<"N", "a", "N">>
    ELSE IF x[1] < 0 THEN <<"-">> \o Decimal(0 - x[1])
    ELSE Decimal(x[1])

\* parseInt: the longest prefix of decimal digits (after an optional sign);
\* NaN when there is none
RECURSIVE DigitPrefix(_)
DigitPrefix(s) ==
    IF s = <<>> \/ ~IsDigit(Head(s)) THEN <<>>
    ELSE <<Head(s)>> \o DigitPrefix(Tail(s))
RECURSIVE DigitsValue(_, _)
DigitsValue(s, acc) ==
    IF s = <<>> THEN acc ELSE DigitsValue(Tail(s), acc * 10 + DigitOf(Head(s)))
parseInt(s) ==
    LET neg == s # <<>> /\ Head(s) = "-"
        body == IF neg THEN Tail(s) ELSE s
        ds == DigitPrefix(body)
    IN  IF ds = <<>> THEN NaN
        ELSE IF neg THEN Num(0 - DigitsValue(ds, 0))
        ELSE Num(DigitsValue(ds, 0))

\* !value of a string-or-null: null and the empty string are falsy
Falsy(item) == item = null \/ item[1] = <<>>

\* `${value}` of a string-or-null inside a template literal
Interpolate(item) == IF item = null THEN <<"n", "u", "l", "l">> ELSE item[1]


(***************************************************************************)
(* Values of the environment.                                              *)
(***************************************************************************)
\* the token strings of the g-th credential pair the backend issues
AccessTok(g) == <<"A", DigitChars[g + 1]>>
RefreshTok(g) == <<"R", DigitChars[g + 1]>>

\* expires_in of the login / refresh responses of a backend (its JWT_ACCESS_TTL):
\* seconds, or missing (NaN once multiplied); refresh_expires_in is a
\* JWT_REFRESH_TTL of 7 days (the default of 30 days, in ms, is beyond the
\* integers TLC computes with)
ExpiresIn == {Num(3600), Num(300), NaN}
RefreshExpiresIn == Num(604800)

\* the instants Date.now() takes in a run (ms)
Instants == {0, 3299999, 3300000}

\* response statuses of the backend to an application request
Statuses == {"200", "401", "403", "500"}

HeaderNames == {"Content-Type", "Authorization", "X-Request-Id"}
NoHeaders == [h \in HeaderNames |-> null]
\* the (url, options) arguments callers pass to apiClient.fetch; options.headers
\* is a HeadersInit: a plain object (headersKind "object") or a Headers
\* instance (headersKind "Headers"), with the entries given in headers
Options ==
    { [url |-> "/api/geoprox/permits", method |-> "GET", body |-> null,
       headersKind |-> "object", headers |-> NoHeaders],
      [url |-> "/api/geoprox/inspections/save", method |-> "POST",
       body |-> Some("payload"), headersKind |-> "object",
       headers |-> [NoHeaders EXCEPT !["Content-Type"] = Some("multipart/form-data"),
                                     !["Authorization"] = Some(<<"B", "a", "s", "i", "c">>),
                                     !["X-Request-Id"] = Some("r-17")]] }

\* the same, with the calls that pass their headers as a Headers instance
HeaderOptions ==
    Options \cup { [o EXCEPT !.headersKind = "Headers"] : o \in Options }

VARIABLES
    isWeb,      \* Platform.OS === 'web' (tokenManager.ts:11)
    accessTtl,  \* backend: the expires_in of its responses
    now,        \* Date.now()
    store,      \* the four token keys of the platform store: key -> null or <<string>>
    writer,     \* which credential pair's storeTokens wrote store[k] (0: none)
    cache,      \* AsyncStorage holds other session data (the 'user' entry)
    route,      \* the route the router shows
    srvLatest,  \* backend: number of the last credential pair issued
    budget,     \* storage operations that may fail in this run (0: a reliable store)
    fails,      \* storage operations that have failed so far
    calls,      \* apiClient.fetch calls started so far
    active,     \* the call sites that invoke apiClient.fetch
    orphans,    \* storage operations still in flight after their Promise.all rejected
    c           \* per call site: the locals of its apiClient.fetch call

vars == <<isWeb, accessTtl, budget, now, store, writer, cache, route, srvLatest, fails, calls,
          active, orphans, c>>

env == <<isWeb, accessTtl, budget, active>>

NoData == [gen |-> 0, access_token |-> <<>>, refresh_token |-> <<>>,
           expires_in |-> NaN, refresh_expires_in |-> NaN]

\* the code that runs a call: apiClient.fetch or a handler of a screen
Sites == {"apiClient.fetch", "inspection.loadPermit", "sampleTesting.loadPermit",
          "loadPermits", "handleLogout", "handleLogin"}

IdleCall ==
    [pc |-> "idle", site |-> "apiClient.fetch", phase |-> "pre",
     opts |-> CHOOSE o \in Options : o.method = "GET",
     reqRT |-> <<>>, verdict |-> "none", data |-> NoData,
     pending |-> {}, sent |-> <<>>, resps |-> <<>>, nRefresh |-> 0, result |-> "none",
     navigated |-> FALSE, snap |-> [k \in Keys |-> null]]

(***************************************************************************)
(* TokenManager: the pure parts.                                           *)
(***************************************************************************)
fiveMinutes == 5 * 60 * 1000

\* storeTokens as it would be if expires_in were taken for milliseconds
storeTokensInMillis(accessToken, refreshToken, expiresIn, refreshExpiresIn, t, g) ==
    LET accessExpiry == Plus(Num(t), expiresIn)
        refreshExpiry == Plus(Num(t), refreshExpiresIn)
    IN  { <<ACCESS_TOKEN_KEY, Some(accessToken), g>>,
          <<REFRESH_TOKEN_KEY, Some(refreshToken), g>>,
          <<TOKEN_EXPIRY_KEY, Some(toString(accessExpiry)), g>>,
          <<REFRESH_EXPIRY_KEY, Some(toString(refreshExpiry)), g>> }

\* the four setItem calls storeTokens starts at time t; an operation is
\* <<key, new item, number of the credential pair>>
storeTokens(accessToken, refreshToken, expiresIn, refreshExpiresIn, t, g) ==
    LET accessExpiry == Plus(Num(t), Times(expiresIn, Num(1000)))
        refreshExpiry == Plus(Num(t), Times(refreshExpiresIn, Num(1000)))
    IN  { <<ACCESS_TOKEN_KEY, Some(accessToken), g>>,
          <<REFRESH_TOKEN_KEY, Some(refreshToken), g>>,
          <<TOKEN_EXPIRY_KEY, Some(toString(accessExpiry)), g>>,
          <<REFRESH_EXPIRY_KEY, Some(toString(refreshExpiry)), g>> }

\* the value the storage operations ops hold for key k
Written(ops, k) == (CHOOSE op \in ops : op[1] = k)[2]

\* clearTokens as it would be if it left the refresh expiry behind
clearTokensLeavesExpiry == { <<k, null, 0>> : k \in Keys \ {REFRESH_EXPIRY_KEY} }

\* the four deleteItem calls clearTokens starts
clearTokens == { <<k, null, 0>> : k \in Keys }

\* isAccessTokenExpired as it would be if a missing expiry counted as valid
isAccessTokenExpiredUnlessAbsent(expiry, t) ==
    IF Falsy(expiry) THEN FALSE
    ELSE LET expiryTime == parseInt(expiry[1])
         IN  Geq(Num(t), Minus(expiryTime, Num(5 * 60 * 1000)))

\* isAccessTokenExpired as it would be if an expiry that is no number counted
\* as expired
isAccessTokenExpiredUnlessNumeric(expiry, t) ==
    IF Falsy(expiry) THEN TRUE
    ELSE LET expiryTime == parseInt(expiry[1])
         IN  IsNaN(expiryTime) \/ Geq(Num(t), Minus(expiryTime, Num(5 * 60 * 1000)))

\* isAccessTokenExpired as it would be with > for >=
isAccessTokenExpiredStrict(expiry, t) ==
    IF Falsy(expiry) THEN TRUE
    ELSE LET expiryTime == parseInt(expiry[1])
         IN  Geq(Num(t), Plus(Minus(expiryTime, Num(5 * 60 * 1000)), Num(1)))

\* isAccessTokenExpired on the item read from TOKEN_EXPIRY_KEY, at time t
isAccessTokenExpired(expiry, t) ==
    IF Falsy(expiry) THEN TRUE
    ELSE LET expiryTime == parseInt(expiry[1])
         IN  Geq(Num(t), Minus(expiryTime, Num(fiveMinutes)))

\* isRefreshTokenExpired as it would be with the margin of the access token
isRefreshTokenExpiredWithMargin(expiry, t) ==
    IF Falsy(expiry) THEN TRUE
    ELSE LET expiryTime == parseInt(expiry[1])
         IN  Geq(Num(t), Minus(expiryTime, Num(fiveMinutes)))

\* isRefreshTokenExpired on the item read from REFRESH_EXPIRY_KEY, at time t
isRefreshTokenExpired(expiry, t) ==
    IF Falsy(expiry) THEN TRUE
    ELSE LET expiryTime == parseInt(expiry[1])
         IN  Geq(Num(t), expiryTime)

\* setItem as it would be if it did not overwrite an entry
LandedIfAbsent(st, op) == IF st[op[1]] = null THEN [st EXCEPT ![op[1]] = op[2]] ELSE st

\* the store after the storage operation op has landed
Landed(st, op) == [st EXCEPT ![op[1]] = op[2]]
LandedWriter(wr, op) == [wr EXCEPT ![op[1]] = op[3]]


(***************************************************************************)
(* Initial states: the app has logged in at time 0 (pair 1 is stored and   *)
(* the user entry cached), or holds no session.                            *)
(***************************************************************************)
LoggedIn(e) ==
    LET ops == storeTokens(AccessTok(1), RefreshTok(1), e, RefreshExpiresIn, 0, 1)
    IN  [k \in Keys |->
            IF \E op \in ops : op[1] = k THEN (CHOOSE op \in ops : op[1] = k)[2]
            ELSE null]

InitWith(who, mayFail, platforms, ttls, sessions, starts) ==
    /\ isWeb \in platforms
    /\ accessTtl \in ttls
    /\ now \in starts
    /\ \/ /\ TRUE \in sessions
          /\ store = LoggedIn(accessTtl)
          /\ writer = [k \in Keys |-> 1]
          /\ cache = TRUE
          /\ route = "/permits"
       \/ /\ FALSE \in sessions
          /\ store = [k \in Keys |-> null]
          /\ writer = [k \in Keys |-> 0]
          /\ cache = FALSE
          /\ route = "/"
    /\ srvLatest = 1
    /\ budget = mayFail
    /\ fails = 0
    /\ calls = 0
    /\ active = who
    /\ orphans = {}
    /\ c = [p \in Callers |-> IdleCall]

\* one call site of a logged-in native app whose access token is about to
\* expire, a store whose operations may fail
InitUnreliable == InitWith({1}, MaxFail, {FALSE}, {Num(3600)}, {TRUE}, {3299999})
\* one call site: any platform, lifetime and session with a store whose
\* operations all succeed, or the app above with a store that may fail
Init ==
    \/ InitWith({1}, 0, BOOLEAN, ExpiresIn, BOOLEAN, {0})
    \/ InitUnreliable
\* two call sites of a native app that logged in at time 0 and whose access
\* token is about to expire, a store whose operations all succeed; or one call
\* site with a store that may fail
InitConcurrent ==
    \/ InitWith(Callers, 0, {FALSE}, {Num(3600)}, {TRUE}, {3299999})
    \/ InitUnreliable

(***************************************************************************)
(* Outcomes of refreshAccessToken and of apiClient.fetch, as updates of    *)
(* the call's locals r.                                                    *)
(***************************************************************************)
\* history: the store as a refreshAccessToken call finds it, recorded for the
\* call of a single call site (with two, the store is not the call's alone)
Snapshot == IF Cardinality(active) = 1 THEN store ELSE IdleCall.snap

\* refreshAccessToken is called: apiClient.ts:10 (pre-flight), :37 (after a 401)
refreshCalled(r, ph) ==
    [r EXCEPT !.pc = "rf_read", !.phase = ph, !.snap = Snapshot]

\* a false from refreshAccessToken as it would be if apiClient.fetch then
\* deleted the access token only
refreshFalseDropsAccessTokenOnly(r) ==
    [r EXCEPT !.pc = "clr", !.pending = { <<ACCESS_TOKEN_KEY, null, 0>> },
              !.snap = IdleCall.snap, !.reqRT = <<>>, !.verdict = "none",
              !.data = NoData, !.opts = IdleCall.opts]

\* refreshAccessToken returns false; apiClient.fetch goes on to clearTokens()
refreshFalse(r) ==
    [r EXCEPT !.pc = "clr", !.pending = clearTokens,
              !.snap = IdleCall.snap, !.reqRT = <<>>, !.verdict = "none",
              !.data = NoData, !.opts = IdleCall.opts]

\* apiClient.fetch as it would be if it ran the pre-flight check again after
\* a successful pre-flight refresh
refreshTrueRechecks(r) ==
    [r EXCEPT !.pc = IF r.phase = "pre" THEN "chk" ELSE "tok2",
              !.pending = {}, !.snap = IdleCall.snap, !.reqRT = <<>>,
              !.verdict = "none", !.data = IF r.phase = "pre" THEN NoData ELSE @]

\* refreshAccessToken returns true; apiClient.fetch goes on to getAccessToken();
\* loadPermits goes on to getAccessToken() when it refreshed before the
\* request, and calls itself when it refreshed for a 401 (sample-testing.tsx:1384)
refreshTrue(r) ==
    IF r.site = "loadPermits"
    THEN [r EXCEPT !.pc = IF r.phase = "pre" THEN "lps_tok" ELSE "lps_chk",
                   !.phase = "pre", !.pending = {}, !.snap = IdleCall.snap,
                   !.reqRT = <<>>, !.verdict = "none", !.data = NoData]
    ELSE [r EXCEPT !.pc = IF r.phase = "pre" THEN "tok" ELSE "tok2",
                   !.pending = {}, !.snap = IdleCall.snap, !.reqRT = <<>>,
                   !.verdict = "none", !.data = IF r.phase = "pre" THEN NoData ELSE @]

\* apiClient.fetch ends: a returned response's status, or the error thrown
ended(r, outcome) == [r EXCEPT !.pc = "done", !.result = outcome, !.pending = {}]

\* A call that has ended is observed by its caller before anything else runs:
\* the continuation of the caller's await is a microtask.
Quiet == \A q \in Callers : c[q].pc # "done"

\* ...(options.headers || {}): the own enumerable properties of the value.
\* A plain object has its entries as properties; a Headers instance keeps its
\* entries internally, not as properties of that kind.
ownProperties(options) ==
    IF options.headersKind = "object" THEN options.headers ELSE NoHeaders

\* the headers object of apiClient.ts:21-28
mergedHeaders(options, token) ==
    LET spread == ownProperties(options)
        headers == [h \in HeaderNames |->
                        IF spread[h] # null THEN spread[h]
                        ELSE IF h = "Content-Type" THEN Some("application/json")
                        ELSE null]
    IN  IF ~Falsy(token)
        THEN [headers EXCEPT !["Authorization"] = Some(<<"Bearer ">> \o Interpolate(token))]
        ELSE headers

\* the request fetch(url, {...options, headers}) puts on the wire
request(options, headers) ==
    [url |-> options.url, method |-> options.method, body |-> options.body,
     headers |-> headers]

(***************************************************************************)
(* apiClient.fetch, one action per suspension point.                       *)
(***************************************************************************)
\* a call site calls apiClient.fetch(url, options)
fetchCalled(p, o) ==
    /\ Quiet
    /\ p \in active
    /\ c[p].pc = "idle"
    /\ calls < MaxCalls
    /\ calls' = calls + 1
    /\ c' = [c EXCEPT ![p] = [IdleCall EXCEPT !.pc = "chk", !.opts = o]]
    /\ UNCHANGED <<env, now, store, writer, cache, route, srvLatest, fails, orphans>>

\* await TokenManager.isAccessTokenExpired() of the pre-flight check
preflightCheck(p) ==
    /\ Quiet
    /\ c[p].pc = "chk"
    /\ \/ /\ c' = [c EXCEPT ![p] =
                    IF isAccessTokenExpired(store[TOKEN_EXPIRY_KEY], now)
                    THEN refreshCalled(@, "pre")
                    ELSE [@ EXCEPT !.pc = "tok"]]
          /\ UNCHANGED fails
       \/ /\ fails < budget
          /\ fails' = fails + 1
          /\ c' = [c EXCEPT ![p] = ended(@, "StorageFailure")]
    /\ UNCHANGED <<env, now, store, writer, cache, route, srvLatest, calls, orphans>>

\* refreshAccessToken as it would be if a call joined a refresh already in flight
\* instead of sending its own
refreshReadSingleFlight(p) ==
    /\ Quiet
    /\ c[p].pc = "rf_read"
    /\ c' = [c EXCEPT ![p] =
                IF Falsy(store[REFRESH_TOKEN_KEY])
                THEN refreshFalse(@)
                ELSE IF \E q \in Callers \ {p} : c[q].pc \in {"rf_wire", "rf_srv", "rf_store"}
                THEN refreshTrue(@)
                ELSE [@ EXCEPT !.pc = "rf_wire", !.reqRT = store[REFRESH_TOKEN_KEY][1],
                               !.nRefresh = @ + 1]]
    /\ UNCHANGED <<env, now, store, writer, cache, route, srvLatest, fails, calls, orphans>>

\* refreshAccessToken as it would be without the check for a missing refresh token
refreshReadSendsWithoutToken(p) ==
    /\ Quiet
    /\ c[p].pc = "rf_read"
    /\ \/ /\ c' = [c EXCEPT ![p] =
                    [@ EXCEPT !.pc = "rf_wire",
                              !.reqRT = IF store[REFRESH_TOKEN_KEY] = null THEN <<>>
                                        ELSE store[REFRESH_TOKEN_KEY][1],
                              !.nRefresh = @ + 1]]
          /\ UNCHANGED fails
       \/ /\ fails < budget
          /\ fails' = fails + 1
          /\ c' = [c EXCEPT ![p] = refreshFalse(@)]
    /\ UNCHANGED <<env, now, store, writer, cache, route, srvLatest, calls, orphans>>

\* refreshAccessToken: await this.getRefreshToken(), then the POST is sent
refreshRead(p) ==
    /\ Quiet
    /\ c[p].pc = "rf_read"
    /\ \/ /\ c' = [c EXCEPT ![p] =
                    IF Falsy(store[REFRESH_TOKEN_KEY])
                    THEN refreshFalse(@)
                    ELSE [@ EXCEPT !.pc = "rf_wire", !.reqRT = store[REFRESH_TOKEN_KEY][1],
                                   !.nRefresh = @ + 1]]
          /\ UNCHANGED fails
       \/ /\ fails < budget
          /\ fails' = fails + 1
          /\ c' = [c EXCEPT ![p] = refreshFalse(@)]
    /\ UNCHANGED <<env, now, store, writer, cache, route, srvLatest, calls, orphans>>

\* backend: the refresh request arrives and its refresh token is validated
\* (only the token of the last pair issued is valid), or the request is lost
refreshArrives(p) ==
    /\ Quiet
    /\ c[p].pc = "rf_wire"
    /\ \/ \E v \in {"accept", "reject"} :
            /\ v = "accept" => c[p].reqRT = RefreshTok(srvLatest)
            /\ c' = [c EXCEPT ![p] = [@ EXCEPT !.pc = "rf_srv", !.verdict = v]]
       \/ c' = [c EXCEPT ![p] = refreshFalse(@)]
    /\ UNCHANGED <<env, now, store, writer, cache, route, srvLatest, fails, calls, orphans>>

\* the ways a refresh request that reached the backend fails: a non-2xx
\* status (401 for a rejected token, 500), a 2xx body that is not JSON, or a
\* response that never arrives
RefreshFailures == {"non2xx", "unparsable", "lost"}

\* refreshAccessToken as it would be if it stored the refresh token it sent
refreshRespondsStoresSentToken(p) ==
    /\ Quiet
    /\ c[p].pc = "rf_srv"
    /\ \/ LET g == srvLatest + 1
                data == [gen |-> g, access_token |-> AccessTok(g),
                         refresh_token |-> RefreshTok(g), expires_in |-> accessTtl,
                         refresh_expires_in |-> RefreshExpiresIn]
            IN  /\ c[p].verdict = "accept"
                /\ srvLatest < MaxGen
                /\ srvLatest' = g
                /\ c' = [c EXCEPT ![p] =
                          [@ EXCEPT !.pc = "rf_store", !.data = data,
                                    !.pending = storeTokens(data.access_token,
                                        c[p].reqRT, data.expires_in,
                                        data.refresh_expires_in, now, g)]]
       \/ \* !response.ok, a 2xx whose body does not parse, or fetch throws:
          \* refreshAccessToken returns false (the reason is kept as history)
          \E why \in RefreshFailures :
             /\ c[p].verdict = "reject" => why # "unparsable"
             /\ c' = [c EXCEPT ![p] = [refreshFalse(@) EXCEPT !.verdict = why]]
             /\ UNCHANGED srvLatest
    /\ UNCHANGED <<env, now, store, writer, cache, route, fails, calls, orphans>>

\* refreshAccessToken as it would be if a failed response dropped the stored
\* access token
refreshRespondsDropsToken(p) ==
    /\ Quiet
    /\ c[p].pc = "rf_srv"
    /\ \/ LET g == srvLatest + 1
                data == [gen |-> g, access_token |-> AccessTok(g),
                         refresh_token |-> RefreshTok(g), expires_in |-> accessTtl,
                         refresh_expires_in |-> RefreshExpiresIn]
            IN  /\ c[p].verdict = "accept"
                /\ srvLatest < MaxGen
                /\ srvLatest' = g
                /\ c' = [c EXCEPT ![p] =
                          [@ EXCEPT !.pc = "rf_store", !.data = data,
                                    !.pending = storeTokens(data.access_token,
                                        data.refresh_token, data.expires_in,
                                        data.refresh_expires_in, now, g)]]
                /\ UNCHANGED <<store, writer>>
       \/ \E why \in RefreshFailures :
             /\ c[p].verdict = "reject" => why # "unparsable"
             /\ c' = [c EXCEPT ![p] = [refreshFalse(@) EXCEPT !.verdict = why]]
             /\ store' = [store EXCEPT ![ACCESS_TOKEN_KEY] = null]
             /\ writer' = [writer EXCEPT ![ACCESS_TOKEN_KEY] = 0]
             /\ UNCHANGED srvLatest
    /\ UNCHANGED <<env, now, cache, route, fails, calls, orphans>>

\* backend answers the refresh; refreshAccessToken goes on (tokenManager.ts:115-126)
refreshResponds(p) ==
    /\ Quiet
    /\ c[p].pc = "rf_srv"
    /\ \/ LET g == srvLatest + 1
                data == [gen |-> g, access_token |-> AccessTok(g),
                         refresh_token |-> RefreshTok(g), expires_in |-> accessTtl,
                         refresh_expires_in |-> RefreshExpiresIn]
            IN  /\ c[p].verdict = "accept"
                /\ srvLatest < MaxGen
                /\ srvLatest' = g
                /\ c' = [c EXCEPT ![p] =
                          [@ EXCEPT !.pc = "rf_store", !.data = data,
                                    !.pending = storeTokens(data.access_token,
                                        data.refresh_token, data.expires_in,
                                        data.refresh_expires_in, now, g)]]
       \/ \* !response.ok, a 2xx whose body does not parse, or fetch throws:
          \* refreshAccessToken returns false (the reason is kept as history)
          \E why \in RefreshFailures :
             /\ c[p].verdict = "reject" => why # "unparsable"
             /\ c' = [c EXCEPT ![p] = [refreshFalse(@) EXCEPT !.verdict = why]]
             /\ UNCHANGED srvLatest
    /\ UNCHANGED <<env, now, store, writer, cache, route, fails, calls, orphans>>

\* refreshAccessToken as it would be without its catch: a failed setItem of
\* storeTokens is thrown on to apiClient.fetch and its caller
storeTokensWriteThrows(p, k) ==
    /\ Quiet
    /\ c[p].pc = "rf_store"
    /\ \E op \in c[p].pending :
       /\ op[1] = k
       /\ \/ /\ store' = Landed(store, op)
             /\ writer' = LandedWriter(writer, op)
             /\ c' = [c EXCEPT ![p] =
                       IF c[p].pending = {op} THEN refreshTrue(@)
                       ELSE [@ EXCEPT !.pending = @ \ {op}]]
             /\ UNCHANGED <<fails, orphans>>
          \/ /\ fails < budget
             /\ fails' = fails + 1
             /\ orphans' = orphans \cup (c[p].pending \ {op})
             /\ c' = [c EXCEPT ![p] = ended(@, "StorageFailure")]
             /\ UNCHANGED <<store, writer>>
    /\ UNCHANGED <<env, now, cache, route, srvLatest, calls>>

\* the setItem call for key k of storeTokens completes (inside refreshAccessToken)
storeTokensWrite(p, k) ==
    /\ Quiet
    /\ c[p].pc = "rf_store"
    /\ \E op \in c[p].pending :
       /\ op[1] = k
       /\ \/ /\ store' = Landed(store, op)
             /\ writer' = LandedWriter(writer, op)
             /\ c' = [c EXCEPT ![p] =
                       IF c[p].pending = {op} THEN refreshTrue(@)
                       ELSE [@ EXCEPT !.pending = @ \ {op}]]
             /\ UNCHANGED <<fails, orphans>>
          \/ \* the write fails: Promise.all rejects, the catch returns false
             /\ fails < budget
             /\ fails' = fails + 1
             /\ orphans' = orphans \cup (c[p].pending \ {op})
             /\ c' = [c EXCEPT ![p] = refreshFalse(@)]
             /\ UNCHANGED <<store, writer>>
    /\ UNCHANGED <<env, now, cache, route, srvLatest, calls>>

\* clearTokens as it would be over a store whose deleteItem rejects for a key
\* that is absent
clearTokensDeleteStrict(p, k) ==
    /\ Quiet
    /\ c[p].pc = "clr"
    /\ \E op \in c[p].pending :
       /\ op[1] = k
       /\ \/ /\ store[k] # null
             /\ store' = Landed(store, op)
             /\ writer' = LandedWriter(writer, op)
             /\ c' = [c EXCEPT ![p] =
                       IF c[p].pending = {op}
                       THEN [@ EXCEPT !.pc = "cache_clr", !.pending = {}, !.verdict = "none"]
                       ELSE [@ EXCEPT !.pending = @ \ {op}, !.verdict = "none"]]
             /\ UNCHANGED <<fails, orphans>>
          \/ /\ store[k] = null \/ fails < budget
             /\ fails' = fails + 1
             /\ orphans' = orphans \cup (c[p].pending \ {op})
             /\ c' = [c EXCEPT ![p] = ended([@ EXCEPT !.verdict = "none"], "StorageFailure")]
             /\ UNCHANGED <<store, writer>>
    /\ UNCHANGED <<env, now, cache, route, srvLatest, calls>>

\* the deleteItem call for key k of clearTokens completes (apiClient.ts:12, :49)
clearTokensDelete(p, k) ==
    /\ Quiet
    /\ c[p].pc = "clr"
    /\ \E op \in c[p].pending :
       /\ op[1] = k
       /\ \/ /\ store' = Landed(store, op)
             /\ writer' = LandedWriter(writer, op)
             /\ c' = [c EXCEPT ![p] =
                       IF c[p].pending = {op}
                       THEN [@ EXCEPT !.pc = "cache_clr", !.pending = {}, !.verdict = "none"]
                       ELSE [@ EXCEPT !.pending = @ \ {op}, !.verdict = "none"]]
             /\ UNCHANGED <<fails, orphans>>
          \/ /\ fails < budget
             /\ fails' = fails + 1
             /\ orphans' = orphans \cup (c[p].pending \ {op})
             /\ c' = [c EXCEPT ![p] = ended([@ EXCEPT !.verdict = "none"], "StorageFailure")]
             /\ UNCHANGED <<store, writer>>
    /\ UNCHANGED <<env, now, cache, route, srvLatest, calls>>

\* the logout path as it would be without AsyncStorage.clear()
sessionExpiredKeepsCache(p) ==
    /\ Quiet
    /\ c[p].pc = "cache_clr"
    /\ c[p].site = "apiClient.fetch"
    /\ route' = "/"
    /\ c' = [c EXCEPT ![p] = [ended(@, "SessionExpired") EXCEPT !.navigated = TRUE]]
    /\ UNCHANGED <<env, now, store, writer, cache, srvLatest, fails, calls, orphans>>

\* await AsyncStorage.clear(); router.replace('/'); throw new Error('Session expired')
sessionExpired(p) ==
    /\ Quiet
    /\ c[p].pc = "cache_clr"
    /\ c[p].site = "apiClient.fetch"
    /\ \/ /\ cache' = FALSE
          /\ store' = IF isWeb THEN [k \in Keys |-> null] ELSE store
          /\ writer' = IF isWeb THEN [k \in Keys |-> 0] ELSE writer
          /\ route' = "/"
          /\ c' = [c EXCEPT ![p] = [ended(@, "SessionExpired") EXCEPT !.navigated = TRUE]]
          /\ UNCHANGED fails
       \/ /\ fails < budget
          /\ fails' = fails + 1
          /\ c' = [c EXCEPT ![p] = ended(@, "StorageFailure")]
          /\ UNCHANGED <<cache, store, writer, route>>
    /\ UNCHANGED <<env, now, srvLatest, calls, orphans>>

\* await TokenManager.getAccessToken(); the headers are built and the request sent
dispatch(p) ==
    /\ Quiet
    /\ c[p].pc = "tok"
    /\ \/ /\ LET headers == mergedHeaders(c[p].opts, store[ACCESS_TOKEN_KEY])
             IN  c' = [c EXCEPT ![p] =
                        [@ EXCEPT !.pc = "wire",
                                  !.sent = <<request(c[p].opts, headers)>>]]
          /\ UNCHANGED fails
       \/ /\ fails < budget
          /\ fails' = fails + 1
          /\ c' = [c EXCEPT ![p] = ended(@, "StorageFailure")]
    /\ UNCHANGED <<env, now, store, writer, cache, route, srvLatest, calls, orphans>>

\* the first response as it would be handled if a 5xx were treated like a 401
firstResponseRefreshesOn5xx(p) ==
    /\ Quiet
    /\ c[p].pc = "wire"
    /\ \/ \E status \in Statuses :
            c' = [c EXCEPT ![p] =
                    IF status \in {"401", "500"}
                    THEN refreshCalled([@ EXCEPT !.resps = <<status>>], "post")
                    ELSE ended([@ EXCEPT !.resps = <<status>>], status)]
       \/ c' = [c EXCEPT ![p] = ended(@, "NetworkFailure")]
    /\ UNCHANGED <<env, now, store, writer, cache, route, srvLatest, fails, calls, orphans>>

\* the first dispatch as it would be handled if a network error were treated
\* like a failed refresh
firstResponseLogsOutOnNetworkError(p) ==
    /\ Quiet
    /\ c[p].pc = "wire"
    /\ \/ \E status \in Statuses :
            c' = [c EXCEPT ![p] =
                    IF status = "401"
                    THEN refreshCalled([@ EXCEPT !.resps = <<status>>], "post")
                    ELSE ended([@ EXCEPT !.resps = <<status>>], status)]
       \/ c' = [c EXCEPT ![p] = refreshFalse([@ EXCEPT !.phase = "post"])]
    /\ UNCHANGED <<env, now, store, writer, cache, route, srvLatest, fails, calls, orphans>>

\* the response of the first dispatch (apiClient.ts:30-36, :56), or fetch throws
firstResponse(p) ==
    /\ Quiet
    /\ c[p].pc = "wire"
    /\ \/ \E status \in Statuses :
            c' = [c EXCEPT ![p] =
                    IF status = "401"
                    THEN refreshCalled([@ EXCEPT !.resps = <<status>>], "post")
                    ELSE ended([@ EXCEPT !.resps = <<status>>], status)]
       \/ c' = [c EXCEPT ![p] = ended(@, "NetworkFailure")]
    /\ UNCHANGED <<env, now, store, writer, cache, route, srvLatest, fails, calls, orphans>>

\* the retry as it would be if the headers of the first dispatch were reused
retryDispatchSameHeaders(p) ==
    /\ Quiet
    /\ c[p].pc = "tok2"
    /\ c' = [c EXCEPT ![p] =
                [@ EXCEPT !.pc = "wire2", !.data = NoData,
                          !.sent = Append(@, request(c[p].opts, c[p].sent[1].headers))]]
    /\ UNCHANGED <<env, now, store, writer, cache, route, srvLatest, fails, calls, orphans>>

\* the retry: await getAccessToken(), the Authorization header is replaced and
\* the request sent again (apiClient.ts:40-46)
retryDispatch(p) ==
    /\ Quiet
    /\ c[p].pc = "tok2"
    /\ \/ /\ LET newToken == store[ACCESS_TOKEN_KEY]
                 headers == [c[p].sent[1].headers EXCEPT !["Authorization"] =
                                Some(<<"Bearer ">> \o Interpolate(newToken))]
             IN  c' = [c EXCEPT ![p] =
                        [@ EXCEPT !.pc = "wire2", !.data = NoData,
                                  !.sent = Append(@, request(c[p].opts, headers))]]
          /\ UNCHANGED fails
       \/ /\ fails < budget
          /\ fails' = fails + 1
          /\ c' = [c EXCEPT ![p] = ended(@, "StorageFailure")]
    /\ UNCHANGED <<env, now, store, writer, cache, route, srvLatest, calls, orphans>>

\* the retry's response as it would be handled if a 401 were refreshed again
retryResponseRefreshesAgain(p) ==
    /\ Quiet
    /\ c[p].pc = "wire2"
    /\ \E status \in Statuses :
            c' = [c EXCEPT ![p] =
                    IF status = "401"
                    THEN refreshCalled([@ EXCEPT !.resps = Append(@, status)], "post")
                    ELSE ended([@ EXCEPT !.resps = Append(@, status)], status)]
    /\ UNCHANGED <<env, now, store, writer, cache, route, srvLatest, fails, calls, orphans>>

\* the response of the retry is returned whatever it is, or fetch throws
retryResponse(p) ==
    /\ Quiet
    /\ c[p].pc = "wire2"
    /\ \/ \E status \in Statuses :
            c' = [c EXCEPT ![p] = ended([@ EXCEPT !.resps = Append(@, status)], status)]
       \/ c' = [c EXCEPT ![p] = ended(@, "NetworkFailure")]
    /\ UNCHANGED <<env, now, store, writer, cache, route, srvLatest, fails, calls, orphans>>

\* a storage operation on key k whose Promise.all has already rejected completes
orphanLands(k) ==
    /\ Quiet
    /\ \E op \in orphans :
        /\ op[1] = k
        /\ orphans' = orphans \ {op}
        /\ store' = Landed(store, op)
        /\ writer' = LandedWriter(writer, op)
    /\ UNCHANGED <<env, now, cache, route, srvLatest, fails, calls, c>>

\* the caller of apiClient.fetch has received the response or the error
returned(p) ==
    /\ c[p].pc = "done"
    /\ c' = [c EXCEPT ![p] = IdleCall]
    /\ UNCHANGED <<env, now, store, writer, cache, route, srvLatest, fails, calls, orphans>>

\* time passes
Tick ==
    /\ Quiet
    /\ \E t \in Instants :
        /\ t > now
        /\ \A u \in Instants : u > now => t <= u
        /\ now' = t
    /\ UNCHANGED <<env, store, writer, cache, route, srvLatest, fails, calls, orphans, c>>

Next ==
    \/ \E p \in Callers, o \in Options : fetchCalled(p, o)
    \/ \E p \in Callers : preflightCheck(p)
    \/ \E p \in Callers : refreshRead(p)
    \/ \E p \in Callers : refreshArrives(p)
    \/ \E p \in Callers : refreshResponds(p)
    \/ \E p \in Callers, k \in Keys : storeTokensWrite(p, k)
    \/ \E p \in Callers, k \in Keys : clearTokensDelete(p, k)
    \/ \E p \in Callers : sessionExpired(p)
    \/ \E p \in Callers : dispatch(p)
    \/ \E p \in Callers : firstResponse(p)
    \/ \E p \in Callers : retryDispatch(p)
    \/ \E p \in Callers : retryResponse(p)
    \/ \E p \in Callers : returned(p)
    \/ \E k \in Keys : orphanLands(k)
    \/ Tick

\* the steps of the apiClient.fetch call of call site p
Progress(p) ==
    \/ preflightCheck(p)
    \/ refreshRead(p)
    \/ refreshArrives(p)
    \/ refreshResponds(p)
    \/ \E k \in Keys : storeTokensWrite(p, k)
    \/ \E k \in Keys : clearTokensDelete(p, k)
    \/ sessionExpired(p)
    \/ dispatch(p)
    \/ firstResponse(p)
    \/ retryDispatch(p)
    \/ retryResponse(p)

Spec == Init /\ [][Next]_vars

\* apiClient.fetch for one call site of a logged-in native app with a reliable
\* store, called with headers in either form
InitHeaders == InitWith({1}, 0, {FALSE}, {Num(3600)}, {TRUE}, {0})
NextHeaders ==
    \/ \E p \in Callers, o \in HeaderOptions : fetchCalled(p, o)
    \/ \E p \in Callers : preflightCheck(p)
    \/ \E p \in Callers : refreshRead(p)
    \/ \E p \in Callers : refreshArrives(p)
    \/ \E p \in Callers : refreshResponds(p)
    \/ \E p \in Callers, k \in Keys : storeTokensWrite(p, k)
    \/ \E p \in Callers, k \in Keys : clearTokensDelete(p, k)
    \/ \E p \in Callers : sessionExpired(p)
    \/ \E p \in Callers : dispatch(p)
    \/ \E p \in Callers : firstResponse(p)
    \/ \E p \in Callers : retryDispatch(p)
    \/ \E p \in Callers : retryResponse(p)
    \/ \E p \in Callers : returned(p)
    \/ Tick
SpecHeaders == InitHeaders /\ [][NextHeaders]_vars
\* apiClient.fetch against a backend whose login and refresh responses carry
\* no expires_in, or null for it
LackingExpiresIn == {NaN, jsonNull}
InitLacking == InitWith({1}, 0, {FALSE}, LackingExpiresIn, {TRUE}, {0})
SpecLacking == InitLacking /\ [][NextHeaders]_vars
\* every awaited operation of a call settles: the promise of a storage
\* operation or of a fetch resolves or rejects in the end
SpecLive == Init /\ [][Next]_vars /\ \A p \in Callers : WF_vars(Progress(p))
SpecUnreliable == InitUnreliable /\ [][Next]_vars
SpecConcurrent == InitConcurrent /\ [][Next]_vars


(***************************************************************************)
(* The screens.  A handler of a screen is a call whose site names it; the  *)
(* handlers run one at a time over a store whose operations succeed.       *)
(* TokenManager.refreshAccessToken and TokenManager.clearTokens are the    *)
(* steps above, whoever calls them.                                        *)
(***************************************************************************)
\* headers: {'Authorization': `Bearer ${token}`, 'Content-Type': 'application/json'}
screenHeaders(token) ==
    [NoHeaders EXCEPT !["Authorization"] = Some(<<"Bearer ">> \o Interpolate(token)),
                      !["Content-Type"] = Some("application/json")]

\* the request a handler's fetch(url, {method, headers}) puts on the wire
screenRequest(url, method, token) ==
    [url |-> url, method |-> method, body |-> null, headers |-> screenHeaders(token)]

\* a handler of a mounted screen is called
handlerCalled(p, site, pc) ==
    /\ Quiet
    /\ p \in active
    /\ c[p].pc = "idle"
    /\ calls < MaxCalls
    /\ calls' = calls + 1
    /\ c' = [c EXCEPT ![p] = [IdleCall EXCEPT !.pc = pc, !.site = site]]
    /\ UNCHANGED <<env, now, store, writer, cache, route, srvLatest, fails, orphans>>

\* AsyncStorage.getItem('token') of sample-testing.tsx:106: no code writes
\* that key, the token is under ACCESS_TOKEN_KEY
asyncStorageToken == null

\* loadPermit of the inspection screen and of the sample-testing screen
DetailScreens == {"inspection.loadPermit", "sampleTesting.loadPermit"}
loadPermitCalled(p, site) ==
    /\ route = "/permits"
    /\ handlerCalled(p, site, "lp_tok")

\* the token is read and the permit requested
loadPermitDispatch(p) ==
    /\ Quiet
    /\ c[p].pc = "lp_tok"
    /\ LET token == IF c[p].site = "inspection.loadPermit"
                    THEN store[ACCESS_TOKEN_KEY]
                    ELSE asyncStorageToken
       IN  c' = [c EXCEPT ![p] =
                    [@ EXCEPT !.pc = "lp_wire",
                              !.sent = <<screenRequest("/api/permits/:permitId", "GET", token)>>]]
    /\ UNCHANGED <<env, now, store, writer, cache, route, srvLatest, fails, calls, orphans>>

\* the response: ok, 401 (the inspection screen calls clearTokens first, the
\* sample-testing screen goes to AsyncStorage.clear()), another status or a
\* rejected fetch (an alert)
loadPermitResponse(p) ==
    /\ Quiet
    /\ c[p].pc = "lp_wire"
    /\ \/ \E status \in Statuses :
            c' = [c EXCEPT ![p] =
                    IF status # "401" THEN ended([@ EXCEPT !.resps = <<status>>], status)
                    ELSE IF c[p].site = "inspection.loadPermit"
                    THEN [@ EXCEPT !.pc = "clr", !.pending = clearTokens, !.resps = <<status>>]
                    ELSE [@ EXCEPT !.pc = "cache_clr", !.resps = <<status>>]]
       \/ c' = [c EXCEPT ![p] = ended(@, "NetworkFailure")]
    /\ UNCHANGED <<env, now, store, writer, cache, route, srvLatest, fails, calls, orphans>>

\* await AsyncStorage.clear(); router.replace('/') of a screen's handler
screenLoggedOut(p) ==
    /\ Quiet
    /\ c[p].pc = "cache_clr"
    /\ c[p].site # "apiClient.fetch"
    /\ cache' = FALSE
    /\ store' = IF isWeb THEN [k \in Keys |-> null] ELSE store
    /\ writer' = IF isWeb THEN [k \in Keys |-> 0] ELSE writer
    /\ route' = "/"
    /\ c' = [c EXCEPT ![p] = [ended(@, "LoggedOut") EXCEPT !.navigated = TRUE]]
    /\ UNCHANGED <<env, now, srvLatest, fails, calls, orphans>>

\* loadPermits of the permits screen
loadPermitsCalled(p) ==
    /\ route = "/permits"
    /\ handlerCalled(p, "loadPermits", "lps_chk")

\* if (await TokenManager.isAccessTokenExpired()) refreshAccessToken
loadPermitsCheck(p) ==
    /\ Quiet
    /\ c[p].pc = "lps_chk"
    /\ c' = [c EXCEPT ![p] =
                IF isAccessTokenExpired(store[TOKEN_EXPIRY_KEY], now)
                THEN refreshCalled(@, "pre")
                ELSE [@ EXCEPT !.pc = "lps_tok"]]
    /\ UNCHANGED <<env, now, store, writer, cache, route, srvLatest, fails, calls, orphans>>

\* await getAccessToken(); the permits are requested
loadPermitsDispatch(p) ==
    /\ Quiet
    /\ c[p].pc = "lps_tok"
    /\ c' = [c EXCEPT ![p] =
                [@ EXCEPT !.pc = "lps_wire",
                          !.sent = Append(@, screenRequest("/api/geoprox/permits", "GET",
                                                           store[ACCESS_TOKEN_KEY]))]]
    /\ UNCHANGED <<env, now, store, writer, cache, route, srvLatest, fails, calls, orphans>>

\* loadPermits as it would be if a 401 were refreshed for once only
loadPermitsResponseRetriesOnce(p) ==
    /\ Quiet
    /\ c[p].pc = "lps_wire"
    /\ \/ \E status \in Statuses :
            c' = [c EXCEPT ![p] =
                    IF status = "401" /\ Len(c[p].sent) < 2
                    THEN refreshCalled([@ EXCEPT !.resps = Append(@, status)], "post")
                    ELSE ended([@ EXCEPT !.resps = Append(@, status)], status)]
       \/ c' = [c EXCEPT ![p] = ended(@, "NetworkFailure")]
    /\ UNCHANGED <<env, now, store, writer, cache, route, srvLatest, fails, calls, orphans>>

\* the response: ok, 401 (refreshAccessToken is called), another status or a
\* rejected fetch (an alert)
loadPermitsResponse(p) ==
    /\ Quiet
    /\ c[p].pc = "lps_wire"
    /\ \/ \E status \in Statuses :
            c' = [c EXCEPT ![p] =
                    IF status = "401"
                    THEN refreshCalled([@ EXCEPT !.resps = Append(@, status)], "post")
                    ELSE ended([@ EXCEPT !.resps = Append(@, status)], status)]
       \/ c' = [c EXCEPT ![p] = ended(@, "NetworkFailure")]
    /\ UNCHANGED <<env, now, store, writer, cache, route, srvLatest, fails, calls, orphans>>

\* handleLogout of the permits screen: on web it starts at once, on native it
\* shows the confirmation
handleLogoutCalled(p) ==
    /\ route = "/permits"
    /\ handlerCalled(p, "handleLogout", IF isWeb THEN "lo_tok" ELSE "lo_confirm")

\* the confirmation is answered: Cancel, or Logout
logoutConfirmed(p) ==
    /\ Quiet
    /\ c[p].pc = "lo_confirm"
    /\ \/ c' = [c EXCEPT ![p] = ended(@, "Cancelled")]
       \/ c' = [c EXCEPT ![p] = [@ EXCEPT !.pc = "lo_tok"]]
    /\ UNCHANGED <<env, now, store, writer, cache, route, srvLatest, fails, calls, orphans>>

\* await getAccessToken(); POST /api/mobile/auth/logout is sent
logoutDispatch(p) ==
    /\ Quiet
    /\ c[p].pc = "lo_tok"
    /\ c' = [c EXCEPT ![p] =
                [@ EXCEPT !.pc = "lo_wire",
                          !.sent = <<screenRequest("/api/mobile/auth/logout", "POST",
                                                   store[ACCESS_TOKEN_KEY])>>]]
    /\ UNCHANGED <<env, now, store, writer, cache, route, srvLatest, fails, calls, orphans>>

\* handleLogout as it would be if the cleanup were in the try block, after a
\* check of the status
logoutResponseStopsOnError(p) ==
    /\ Quiet
    /\ c[p].pc = "lo_wire"
    /\ \/ \E status \in Statuses :
            c' = [c EXCEPT ![p] =
                    IF status = "200"
                    THEN [@ EXCEPT !.pc = "clr", !.pending = clearTokens, !.resps = <<status>>]
                    ELSE ended([@ EXCEPT !.resps = <<status>>], status)]
       \/ c' = [c EXCEPT ![p] = ended(@, "NetworkFailure")]
    /\ UNCHANGED <<env, now, store, writer, cache, route, srvLatest, fails, calls, orphans>>

\* the response of the logout request, whatever its status, or the catch of a
\* rejected fetch: the finally block calls clearTokens
logoutResponse(p) ==
    /\ Quiet
    /\ c[p].pc = "lo_wire"
    /\ \/ \E status \in Statuses :
            c' = [c EXCEPT ![p] =
                    [@ EXCEPT !.pc = "clr", !.pending = clearTokens, !.resps = <<status>>]]
       \/ c' = [c EXCEPT ![p] = [@ EXCEPT !.pc = "clr", !.pending = clearTokens]]
    /\ UNCHANGED <<env, now, store, writer, cache, route, srvLatest, fails, calls, orphans>>

\* handleLogin of the login screen: with an empty username or password it
\* alerts and returns, otherwise the login request is sent
handleLoginCalled(p, filled) ==
    /\ route = "/"
    /\ handlerCalled(p, "handleLogin", IF filled THEN "li_wire" ELSE "done")

\* how a login request fails: a non-2xx status, the 15 s timer, a network
\* error (the promise rejects, the catch alerts) or a 2xx body without access_token
LoginFailures == {"non2xx", "timeout", "network", "noAccessToken"}

\* the outcome of the login request
loginResponse(p) ==
    /\ Quiet
    /\ c[p].pc = "li_wire"
    /\ \/ LET g == srvLatest + 1
              data == [gen |-> g, access_token |-> AccessTok(g),
                       refresh_token |-> RefreshTok(g), expires_in |-> accessTtl,
                       refresh_expires_in |-> RefreshExpiresIn]
          IN  /\ srvLatest < MaxGen
              /\ srvLatest' = g
              /\ c' = [c EXCEPT ![p] =
                        [@ EXCEPT !.pc = "li_store", !.data = data,
                                  !.pending = storeTokens(data.access_token,
                                      data.refresh_token, data.expires_in,
                                      data.refresh_expires_in, now, g)]]
       \/ \E why \in LoginFailures :
             /\ c' = [c EXCEPT ![p] = ended(@, why)]
             /\ UNCHANGED srvLatest
       \/ \* a 2xx body that is not JSON: JSON.parse throws inside onload after
          \* the timer was cleared, the promise never settles
          /\ c' = [c EXCEPT ![p] = [@ EXCEPT !.pc = "li_hung"]]
          /\ UNCHANGED srvLatest
    /\ UNCHANGED <<env, now, store, writer, cache, route, fails, calls, orphans>>

\* handleLogin as it would be if it went on when the first setItem completed
loginStoreWriteFirstWins(p, k) ==
    /\ Quiet
    /\ c[p].pc = "li_store"
    /\ \E op \in c[p].pending :
       /\ op[1] = k
       /\ store' = Landed(store, op)
       /\ writer' = LandedWriter(writer, op)
       /\ orphans' = orphans \cup (c[p].pending \ {op})
       /\ c' = [c EXCEPT ![p] = [@ EXCEPT !.pc = "li_user", !.pending = {}]]
    /\ UNCHANGED <<env, now, cache, route, srvLatest, fails, calls>>

\* the setItem call for key k of the storeTokens of handleLogin completes
loginStoreWrite(p, k) ==
    /\ Quiet
    /\ c[p].pc = "li_store"
    /\ \E op \in c[p].pending :
       /\ op[1] = k
       /\ store' = Landed(store, op)
       /\ writer' = LandedWriter(writer, op)
       /\ c' = [c EXCEPT ![p] =
                 IF c[p].pending = {op} THEN [@ EXCEPT !.pc = "li_user", !.pending = {}]
                 ELSE [@ EXCEPT !.pending = @ \ {op}]]
    /\ UNCHANGED <<env, now, cache, route, srvLatest, fails, calls, orphans>>

\* await AsyncStorage.setItem('user', ...); router.replace('/permits')
loginUserCached(p) ==
    /\ Quiet
    /\ c[p].pc = "li_user"
    /\ cache' = TRUE
    /\ route' = "/permits"
    /\ c' = [c EXCEPT ![p] = [ended(@, "LoggedIn") EXCEPT !.navigated = TRUE]]
    /\ UNCHANGED <<env, now, store, writer, srvLatest, fails, calls, orphans>>

\* the app of one user, on web or native, logged in or not: the handlers of
\* its screens and apiClient.fetch, called one after the other
InitScreens == InitWith({1}, 0, BOOLEAN, {Num(3600)}, BOOLEAN, {0})
NextScreens ==
    \/ \E p \in Callers : fetchCalled(p, IdleCall.opts)
    \/ \E p \in Callers : preflightCheck(p)
    \/ \E p \in Callers : refreshRead(p)
    \/ \E p \in Callers : refreshArrives(p)
    \/ \E p \in Callers : refreshResponds(p)
    \/ \E p \in Callers, k \in Keys : storeTokensWrite(p, k)
    \/ \E p \in Callers, k \in Keys : clearTokensDelete(p, k)
    \/ \E p \in Callers : sessionExpired(p)
    \/ \E p \in Callers : dispatch(p)
    \/ \E p \in Callers : firstResponse(p)
    \/ \E p \in Callers : retryDispatch(p)
    \/ \E p \in Callers : retryResponse(p)
    \/ \E p \in Callers, site \in DetailScreens : loadPermitCalled(p, site)
    \/ \E p \in Callers : loadPermitDispatch(p)
    \/ \E p \in Callers : loadPermitResponse(p)
    \/ \E p \in Callers : screenLoggedOut(p)
    \/ \E p \in Callers : loadPermitsCalled(p)
    \/ \E p \in Callers : loadPermitsCheck(p)
    \/ \E p \in Callers : loadPermitsDispatch(p)
    \/ \E p \in Callers : loadPermitsResponse(p)
    \/ \E p \in Callers : handleLogoutCalled(p)
    \/ \E p \in Callers : logoutConfirmed(p)
    \/ \E p \in Callers : logoutDispatch(p)
    \/ \E p \in Callers : logoutResponse(p)
    \/ \E p \in Callers, filled \in BOOLEAN : handleLoginCalled(p, filled)
    \/ \E p \in Callers : loginResponse(p)
    \/ \E p \in Callers, k \in Keys : loginStoreWrite(p, k)
    \/ \E p \in Callers : loginUserCached(p)
    \/ \E p \in Callers : returned(p)
    \/ Tick
SpecScreens == InitScreens /\ [][NextScreens]_vars


(***************************************************************************)
(* TokenManager.isRefreshTokenExpired, which no screen and not apiClient   *)
(* calls: a call site asks it about a store that holds what storeTokens    *)
(* wrote at some instant for some refresh lifetime, or nothing.            *)
(***************************************************************************)
\* refresh_expires_in of a login response: 7 days, 55 minutes, or missing
RefreshLifetimes == {RefreshExpiresIn, Num(3300), NaN}
\* the instants at which the question is asked
ExpiryInstants == Instants \cup {604799999, 604800000}

StoredBy(re, t0) ==
    LET ops == storeTokens(AccessTok(1), RefreshTok(1), Num(3600), re, t0, 1)
    IN  [k \in Keys |-> Written(ops, k)]

InitExpiry ==
    /\ isWeb \in BOOLEAN
    /\ accessTtl = Num(3600)
    /\ now \in ExpiryInstants
    /\ \/ /\ \E re \in RefreshLifetimes, t0 \in Instants : store = StoredBy(re, t0)
          /\ writer = [k \in Keys |-> 1]
          /\ cache = TRUE
          /\ route = "/permits"
       \/ /\ store = [k \in Keys |-> null]
          /\ writer = [k \in Keys |-> 0]
          /\ cache = FALSE
          /\ route = "/"
    /\ srvLatest = 1
    /\ budget \in {0, MaxFail}
    /\ fails = 0
    /\ calls = 0
    /\ active = Callers
    /\ orphans = {}
    /\ c = [p \in Callers |-> IdleCall]

\* await TokenManager.isRefreshTokenExpired(): its getItem resolves and the
\* boolean is returned, or the getItem rejects and the error is thrown
isRefreshTokenExpiredCalled(p) ==
    /\ Quiet
    /\ p \in active
    /\ c[p].pc = "idle"
    /\ \/ /\ c' = [c EXCEPT ![p] =
                    ended(@, IF isRefreshTokenExpired(store[REFRESH_EXPIRY_KEY], now)
                             THEN "true" ELSE "false")]
          /\ UNCHANGED fails
       \/ /\ fails < budget
          /\ fails' = fails + 1
          /\ c' = [c EXCEPT ![p] = ended(@, "StorageFailure")]
    /\ UNCHANGED <<env, now, store, writer, cache, route, srvLatest, calls, orphans>>

NextExpiry ==
    \/ \E p \in Callers : isRefreshTokenExpiredCalled(p)
    \/ \E p \in Callers : returned(p)

SpecExpiry == InitExpiry /\ [][NextExpiry]_vars


(***************************************************************************)
(* What the claims speak about.                                            *)
(***************************************************************************)
RefreshPcs == {"rf_read", "rf_wire", "rf_srv", "rf_store"}
\* a step in which refreshAccessToken returns false / true to apiClient.fetch
RefreshReturnsFalse(p) == c[p].pc \in RefreshPcs /\ c'[p].pc = "clr"
RefreshReturnsTrue(p) == c[p].pc = "rf_store" /\ c'[p].pc \in {"tok", "tok2"}

\* the run's store never fails an operation
Reliable == budget = 0

Empty == [k \in Keys |-> null]
Bearer(token) == Some(<<"Bearer ">> \o token)

\* a stored expiry read as a decimal numeral
IsNumeral(str) == str # <<>> /\ \A i \in 1..Len(str) : IsDigit(str[i])
RECURSIVE Numeral(_)
Numeral(str) ==
    IF str = <<>> THEN 0
    ELSE Numeral(SubSeq(str, 1, Len(str) - 1)) * 10 + DigitOf(str[Len(str)])

\* C1: a call whose first dispatch and retry are both answered 401 has sent
\* exactly two requests and has ended, returning the second 401; no call ever
\* sends a third request.
C1_AtMostOneRetry ==
    \A p \in Callers :
        /\ Len(c[p].sent) <= 2
        /\ Len(c[p].resps) <= Len(c[p].sent)
        /\ c[p].resps = <<"401", "401">> =>
              /\ c[p].pc = "done"
              /\ c[p].result = "401"
              /\ Len(c[p].sent) = 2

C1_Witness ==
    \E p \in Callers :
        c[p].resps = <<"401", "401">> /\ c[p].pc = "done" /\ c[p].nRefresh = 1

\* C2: whenever refreshAccessToken returns false, the four stored values are
\* the ones the call found.
C2_FalseLeavesStoreUntouched ==
    [][\A p \in Callers : RefreshReturnsFalse(p) => store' = c[p].snap]_vars

\* C3: with a reliable store, when refreshAccessToken returns true, the stored
\* refresh token is the one of the refresh response, and not the one sent
\* when the two differ.
C3_RotatedRefreshTokenStored ==
    [][\A p \in Callers :
        Reliable /\ RefreshReturnsTrue(p) =>
            /\ store'[REFRESH_TOKEN_KEY] = Some(c[p].data.refresh_token)
            /\ c[p].data.refresh_token # c[p].reqRT =>
                  store'[REFRESH_TOKEN_KEY] # Some(c[p].reqRT)]_vars

C3_Witness ==
    \E p \in Callers :
        /\ Reliable
        /\ c[p].pc = "tok2"
        /\ store[REFRESH_TOKEN_KEY] = Some(c[p].data.refresh_token)
        /\ store[REFRESH_TOKEN_KEY] # Some(RefreshTok(1))

\* the logout path of apiClient.fetch after a failed refresh in phase ph, with
\* n requests dispatched before it: clearTokens is started at once, all four
\* keys are absent when it resolves, and the call ends by clearing the cache,
\* showing '/' and throwing 'Session expired' without dispatching anything more
LogoutPath(p, ph, n) ==
    c[p].phase = ph =>
        /\ RefreshReturnsFalse(p) =>
              c'[p].pending = { <<k, null, 0>> : k \in Keys } /\ Len(c'[p].sent) = n
        /\ c[p].pc = "clr" =>
              /\ c'[p].pc \in {"clr", "cache_clr"}
              /\ c'[p].pc = "cache_clr" => store' = Empty
              /\ Len(c'[p].sent) = n
        /\ c[p].pc = "cache_clr" /\ c'[p].pc # "cache_clr" =>
              /\ c'[p].pc = "done"
              /\ c'[p].result = "SessionExpired"
              /\ store' = Empty
              /\ cache' = FALSE
              /\ route' = "/"
              /\ Len(c'[p].sent) = n

\* C4: with a reliable store, a pre-flight refresh that fails leads to
\* clearTokens, the cache clear, the navigation to '/' and 'Session expired',
\* and no request is dispatched.
C4_PreflightFailureLogsOut ==
    [][\A p \in Callers : Reliable => LogoutPath(p, "pre", 0)]_vars

C4_Witness ==
    \E p \in Callers :
        /\ Reliable
        /\ c[p].pc = "done" /\ c[p].result = "SessionExpired" /\ c[p].phase = "pre"
        /\ c[p].nRefresh = 1 /\ c[p].sent = <<>>
        /\ store = Empty /\ cache = FALSE /\ route = "/"

\* C5: with a reliable store, a refresh after a 401 that fails leads to
\* clearTokens, the cache clear, the navigation to '/' and 'Session expired',
\* and the request is not retried.
C5_PostflightFailureLogsOut ==
    [][\A p \in Callers : Reliable => LogoutPath(p, "post", 1)]_vars

C5_Witness ==
    \E p \in Callers :
        /\ Reliable
        /\ c[p].pc = "done" /\ c[p].result = "SessionExpired" /\ c[p].phase = "post"
        /\ c[p].resps = <<"401">> /\ Len(c[p].sent) = 1
        /\ store = Empty /\ cache = FALSE /\ route = "/"

\* C6: with a reliable store, the retry after a 401 and a successful refresh
\* is the first request with its Authorization header replaced by
\* Bearer <access token of the refresh response>, which is not the header of
\* the first dispatch.
C6_RetryCarriesNewToken ==
    [][\A p \in Callers :
        Reliable /\ c[p].pc = "tok2" /\ c'[p].pc = "wire2" =>
            /\ Len(c'[p].sent) = 2
            /\ c'[p].sent[2].headers["Authorization"] = Bearer(c[p].data.access_token)
            /\ c'[p].sent[2].headers["Authorization"] #
                  c'[p].sent[1].headers["Authorization"]
            /\ c'[p].sent[2] =
                  [c'[p].sent[1] EXCEPT !.headers["Authorization"] =
                      Bearer(c[p].data.access_token)]]_vars

C6_Witness ==
    \E p \in Callers :
        /\ Reliable
        /\ c[p].pc = "wire2"
        /\ c[p].sent[1].headers["Authorization"] = Bearer(AccessTok(1))
        /\ c[p].sent[2].headers["Authorization"] = Bearer(AccessTok(2))
        /\ c[p].sent[2].headers["X-Request-Id"] = Some("r-17")

\* C10: the pre-flight check, when its read of the store succeeds, finds the
\* token expired when no expiry is stored, and for a stored expiry E exactly
\* when now >= E - 300000.
C10_ExpiryMargin ==
    [][\A p \in Callers :
        Reliable /\ c[p].pc = "chk" /\ c'[p].pc # "chk" =>
            LET expiry == store[TOKEN_EXPIRY_KEY]
                found == c'[p].pc = "rf_read"
            IN  /\ c'[p].pc \in {"rf_read", "tok"}
                /\ expiry = null => found
                /\ expiry # null /\ IsNumeral(expiry[1]) =>
                      (found <=> now >= Numeral(expiry[1]) - 300000)]_vars

\* the check has just found the token expired exactly at E - 300000
C10_Witness ==
    \E p \in Callers :
        /\ Reliable
        /\ c[p].pc = "rf_read" /\ c[p].phase = "pre"
        /\ store[TOKEN_EXPIRY_KEY] # null
        /\ IsNumeral(store[TOKEN_EXPIRY_KEY][1])
        /\ Numeral(store[TOKEN_EXPIRY_KEY][1]) = now + 300000
        /\ now > 0


\* a refresh request of the pre-flight check is on its way to or at the backend
PreflightRefreshInFlight(p) == c[p].phase = "pre" /\ c[p].pc \in {"rf_wire", "rf_srv"}

\* C7: nothing serializes refreshes: with a reliable store, a call that reads
\* a stored refresh token in refreshAccessToken sends a refresh request of its
\* own carrying it, whatever the other calls are doing.
C7_RefreshesNotSerialized ==
    [][\A p \in Callers :
        Reliable /\ c[p].pc = "rf_read" /\ c'[p].pc # "rf_read" /\ ~Falsy(store[REFRESH_TOKEN_KEY]) =>
            /\ c'[p].pc = "rf_wire"
            /\ c'[p].reqRT = store[REFRESH_TOKEN_KEY][1]
            /\ c'[p].nRefresh = c[p].nRefresh + 1]_vars

\* two calls found the token expired and their refresh requests, carrying the
\* same refresh token, are in flight at once
C7_Witness ==
    \E p \in Callers, q \in Callers :
        /\ p # q
        /\ PreflightRefreshInFlight(p) /\ PreflightRefreshInFlight(q)
        /\ c[p].reqRT = c[q].reqRT
        /\ c[p].reqRT = RefreshTok(1)

\* C8: with a reliable store, every setItem of storeTokens that completes
\* overwrites the entry with its value whatever the entry holds (the last to
\* land wins), and the backend rejects a refresh request whose refresh token
\* is not that of the last pair it issued.
C8_LastWriteWinsStaleRejected ==
    [][\A p \in Callers :
        /\ Reliable /\ c[p].pc = "rf_store" =>
              \A op \in c[p].pending \ c'[p].pending : store'[op[1]] = op[2]
        /\ c[p].pc = "rf_wire" /\ c'[p].pc = "rf_srv" /\ c[p].reqRT # RefreshTok(srvLatest) =>
              c'[p].verdict = "reject"]_vars

\* both concurrent refreshes succeeded (pairs 2 and 3 were issued and stored),
\* the store holds the refresh token of pair 2, and the next refresh of the
\* session, carrying it, is being rejected
C8_Witness ==
    \E p \in Callers :
        /\ srvLatest = 3
        /\ \A q \in Callers : c[q].pending = {} /\ c[q].pc # "rf_store"
        /\ store[REFRESH_TOKEN_KEY] = Some(RefreshTok(2))
        /\ c[p].phase = "post" /\ c[p].pc = "rf_srv"
        /\ c[p].reqRT = RefreshTok(2) /\ c[p].verdict = "reject"

\* a read of the Token Manager is pending for some call
ReaderWaiting == \E q \in Callers : c[q].pc \in {"chk", "rf_read", "tok", "tok2"}

\* C9: even with a reliable store, no reader finds the access token of a
\* newer pair next to the expiry of an older one.
C9_NoTornPair ==
    Reliable /\ ReaderWaiting =>
        ~ /\ writer[TOKEN_EXPIRY_KEY] # 0
          /\ writer[ACCESS_TOKEN_KEY] > writer[TOKEN_EXPIRY_KEY]

\* C11: with a reliable store, the first request of a call whose pre-flight
\* check refreshed the token is dispatched with a stored token that is not
\* expired under the margin: now < accessExpiry - 300000.
C11_RefreshedTokenFresh ==
    [][\A p \in Callers :
        /\ Reliable
        /\ c[p].pc = "tok" /\ c'[p].pc = "wire"
        /\ c[p].phase = "pre" /\ c[p].nRefresh = 1
        /\ store[TOKEN_EXPIRY_KEY] # null /\ IsNumeral(store[TOKEN_EXPIRY_KEY][1])
        => /\ c'[p].sent[1].headers["Authorization"] = Bearer(store[ACCESS_TOKEN_KEY][1])
           /\ now < Numeral(store[TOKEN_EXPIRY_KEY][1]) - 300000]_vars

\* C12: refreshAccessToken that finds no refresh token stored returns false
\* at once, without sending a refresh request.
C12_NoTokenNoRequest ==
    [][\A p \in Callers :
        c[p].pc = "rf_read" /\ c'[p].pc # "rf_read" /\ Falsy(store[REFRESH_TOKEN_KEY]) =>
            /\ RefreshReturnsFalse(p)
            /\ c'[p].nRefresh = c[p].nRefresh
            /\ store' = store]_vars

\* the call of an app without a session: the refresh has returned false with
\* no request sent, and clearTokens has just been started
C12_Witness ==
    \E p \in Callers :
        /\ Reliable
        /\ c[p].pc = "clr" /\ c[p].pending = clearTokens
        /\ c[p].nRefresh = 0
        /\ store[REFRESH_TOKEN_KEY] = null

\* C13: when the refresh endpoint answers with a non-2xx status,
\* refreshAccessToken returns false in a step that writes nothing to the
\* store, and (with a reliable store) the stored access token is the one the
\* call found.
C13_Non2xxLeavesStore ==
    [][\A p \in Callers :
        c[p].pc = "rf_srv" /\ c'[p].pc # "rf_srv" /\ c'[p].verdict = "non2xx" =>
            /\ RefreshReturnsFalse(p)
            /\ store' = store
            /\ Reliable => store'[ACCESS_TOKEN_KEY] = c[p].snap[ACCESS_TOKEN_KEY]]_vars

\* the refresh of the logged-in app has just been answered with a non-2xx
\* status and the access token of the login is still stored
C13_Witness ==
    \E p \in Callers :
        /\ Reliable
        /\ c[p].pc = "clr" /\ c[p].pending = clearTokens
        /\ c[p].verdict = "non2xx" /\ c[p].nRefresh = 1
        /\ store[ACCESS_TOKEN_KEY] = Some(AccessTok(1))

\* C14: refreshAccessToken never throws: whatever the store, the network and
\* the parsing do, it ends by returning false or true to apiClient.fetch, and
\* true only when the backend accepted the request and the last of the four
\* writes of the new pair has landed.
C14_RefreshNeverThrows ==
    [][\A p \in Callers :
        c[p].pc \in RefreshPcs /\ c'[p].pc \notin RefreshPcs =>
            /\ RefreshReturnsFalse(p) \/ RefreshReturnsTrue(p)
            /\ c'[p].pc # "done"
            /\ RefreshReturnsTrue(p) =>
                  /\ c[p].verdict = "accept" /\ c[p].data.gen > 1
                  /\ Cardinality(c[p].pending) = 1
                  /\ \A op \in c[p].pending : store'[op[1]] = op[2]]_vars

\* the first setItem of storeTokens has failed and refreshAccessToken has
\* returned false: clearTokens is starting while the other three writes are
\* still in flight
C14_Witness ==
    \E p \in Callers :
        /\ c[p].pc = "clr" /\ c[p].pending = clearTokens
        /\ fails = 1
        /\ Cardinality(orphans) = 3
        /\ \A op \in orphans : op[3] = 2

\* C15: a store operation that fails during a Token Manager operation ends
\* the call with that error.
C15_StorageFailurePropagates ==
    [][fails' # fails =>
          \E p \in Callers : c'[p].pc = "done" /\ c'[p].result = "StorageFailure"]_vars

\* C16: clearTokens is idempotent: with a reliable store, every deleteItem
\* that completes leaves its key absent, whether or not the key was stored,
\* and raises no error, and when clearTokens resolves all four keys are
\* absent; so also for a clearTokens that follows another one or finds the
\* store empty.
C16_ClearTokensIdempotent ==
    [][\A p \in Callers :
        Reliable /\ c[p].pc = "clr" /\ c'[p] # c[p] =>
            /\ c'[p].pc \in {"clr", "cache_clr"}
            /\ \E op \in c[p].pending :
                  /\ c'[p].pending = c[p].pending \ {op}
                  /\ store' = [store EXCEPT ![op[1]] = null]
            /\ c'[p].pc = "cache_clr" => c'[p].pending = {} /\ store' = Empty]_vars

\* the clearTokens of a second call in a row has resolved: the call found no
\* refresh token, the store having been emptied by the clearTokens of the
\* first call (or empty from the start)
C16_Witness ==
    \E p \in Callers :
        /\ Reliable
        /\ calls = 2
        /\ c[p].pc = "cache_clr" /\ c[p].nRefresh = 0
        /\ store = Empty

\* C17: a first response with a status other than 401 ends the call with that
\* response: no refresh is started, nothing more is dispatched, and the
\* store, the cache and the route are left as they are.
C17_Non401Returned ==
    [][\A p \in Callers :
        /\ c[p].pc = "wire" /\ c'[p].pc # "wire"
        /\ c'[p].resps # <<>> /\ c'[p].resps[1] # "401"
        => /\ c'[p].pc = "done"
           /\ c'[p].result = c'[p].resps[1]
           /\ Len(c'[p].resps) = 1
           /\ c'[p].sent = c[p].sent
           /\ c'[p].nRefresh = c[p].nRefresh
           /\ c'[p].navigated = FALSE
           /\ store' = store /\ cache' = cache /\ route' = route]_vars

\* a call answered 500 has ended with that response, the session untouched
C17_Witness ==
    \E p \in Callers :
        /\ c[p].pc = "done" /\ c[p].result = "500" /\ c[p].resps = <<"500">>
        /\ Len(c[p].sent) = 1 /\ c[p].nRefresh = 0
        /\ store[ACCESS_TOKEN_KEY] = Some(AccessTok(1))
        /\ cache = TRUE /\ route = "/permits"

\* a call answered 403 (a 4xx other than 401) has ended with that response
C17_WitnessOther4xx ==
    \E p \in Callers :
        /\ c[p].pc = "done" /\ c[p].result = "403" /\ c[p].resps = <<"403">>
        /\ Len(c[p].sent) = 1 /\ c[p].nRefresh = 0

C19_RefreshExpiryNoMargin ==
    [][\A p \in Callers :
        c[p].pc = "idle" /\ c'[p].pc = "done" /\ c'[p].result \in {"true", "false"} =>
            LET expiry == store[REFRESH_EXPIRY_KEY]
            IN  /\ expiry = null => c'[p].result = "true"
                /\ expiry # null /\ IsNumeral(expiry[1]) =>
                      (c'[p].result = "true" <=> now >= Numeral(expiry[1]))]_vars

\* asked exactly at the stored refresh expiry (7 days after a login at time 0),
\* isRefreshTokenExpired has returned true
C19_Witness ==
    \E p \in Callers :
        /\ c[p].pc = "done" /\ c[p].result = "true"
        /\ store[REFRESH_EXPIRY_KEY] # null
        /\ IsNumeral(store[REFRESH_EXPIRY_KEY][1])
        /\ Numeral(store[REFRESH_EXPIRY_KEY][1]) = now
        /\ now = 604800000

\* asked one millisecond before the stored refresh expiry, it has returned false
C19_WitnessBefore ==
    \E p \in Callers :
        /\ c[p].pc = "done" /\ c[p].result = "false"
        /\ store[REFRESH_EXPIRY_KEY] # null
        /\ IsNumeral(store[REFRESH_EXPIRY_KEY][1])
        /\ Numeral(store[REFRESH_EXPIRY_KEY][1]) = now + 1

\* how apiClient.fetch ends when every awaited operation completes
Completions == Statuses \cup {"SessionExpired"}
\* how it ends when a fetch or a storage operation rejects
Rejections == {"NetworkFailure", "StorageFailure"}

\* C20: a call of apiClient.fetch sends at most one refresh request before
\* its first dispatch and at most one after it, dispatches at most two
\* requests, refreshes after a dispatch only for the 401 of the first one,
\* runs the pre-flight check and the first dispatch once and calls
\* refreshAccessToken only from the check and from the first response, and
\* always ends: with a response or 'Session expired', or with the error of
\* an operation that rejected.
C20_BoundedAndTerminates ==
    /\ [](\A p \in Callers :
            /\ Len(c[p].sent) <= 2
            /\ c[p].nRefresh <= 2
            /\ c[p].phase = "pre" => c[p].nRefresh <= 1
            /\ c[p].pc \in RefreshPcs /\ c[p].phase = "pre" => c[p].sent = <<>>
            /\ c[p].pc \in RefreshPcs /\ c[p].phase = "post" =>
                  Len(c[p].sent) = 1 /\ c[p].resps = <<"401">>
            /\ c[p].pc = "done" => c[p].result \in Completions \cup Rejections
            /\ c[p].pc = "done" /\ Reliable /\ c[p].result \notin Completions =>
                  c[p].result = "NetworkFailure")
    /\ [][\A p \in Callers :
            /\ c'[p].pc = "chk" /\ c[p].pc # "chk" => c[p].pc = "idle"
            /\ c'[p].pc = "rf_read" /\ c[p].pc # "rf_read" => c[p].pc \in {"chk", "wire"}
            /\ c'[p].pc = "wire" /\ c[p].pc # "wire" => c[p].pc = "tok" /\ c[p].sent = <<>>]_vars
    /\ \A p \in Callers : (c[p].pc = "chk") ~> (c[p].pc = "done")

\* a call that refreshed before its first dispatch and again after its 401 has
\* ended with the 401 of the retry, two requests sent
C20_Witness ==
    \E p \in Callers :
        /\ c[p].pc = "done" /\ c[p].result = "401"
        /\ c[p].nRefresh = 2
        /\ c[p].resps = <<"401", "401">> /\ Len(c[p].sent) = 2

\* C23: the first request of a call carries every header the caller supplied
\* other than Authorization with the caller's value (Content-Type included,
\* application/json being only the default), the url, method and body of the
\* caller, and, when an access token is stored, Authorization set to
\* Bearer <stored access token> whatever the caller supplied.
C23_HeadersMerged ==
    [][\A p \in Callers :
        c[p].pc = "tok" /\ c'[p].pc = "wire" =>
            LET o == c[p].opts
                r == c'[p].sent[1]
                token == store[ACCESS_TOKEN_KEY]
            IN  /\ Len(c'[p].sent) = 1
                /\ r.url = o.url /\ r.method = o.method /\ r.body = o.body
                /\ \A h \in HeaderNames \ {"Authorization"} :
                      o.headers[h] # null => r.headers[h] = o.headers[h]
                /\ o.headers["Content-Type"] = null =>
                      r.headers["Content-Type"] = Some("application/json")
                /\ ~Falsy(token) => r.headers["Authorization"] = Bearer(token[1])]_vars

\* the POST of a caller that supplied its own Content-Type, Authorization and
\* X-Request-Id is on the wire: Content-Type and X-Request-Id are the
\* caller's, Authorization is the stored token's
C23_Witness ==
    \E p \in Callers :
        /\ c[p].pc = "wire"
        /\ c[p].opts.headers["Authorization"] = Some(<<"B", "a", "s", "i", "c">>)
        /\ c[p].sent[1].headers["Content-Type"] = Some("multipart/form-data")
        /\ c[p].sent[1].headers["X-Request-Id"] = Some("r-17")
        /\ c[p].sent[1].headers["Authorization"] = Bearer(AccessTok(1))

\* C28: with a reliable store, a call of apiClient.fetch that finds the store
\* empty goes from the pre-flight check (expired) to refreshAccessToken
\* (false, no request sent), to clearTokens and to the logout: it sends
\* neither a refresh request nor the request, the store stays empty, and it
\* ends showing '/' and throwing 'Session expired'.
C28_EmptyStoreNoRequests ==
    [][\A p \in Callers :
        /\ Reliable /\ store = Empty
        /\ c[p].pc \in {"chk", "rf_read", "clr", "cache_clr"}
        /\ c[p].nRefresh = 0 /\ c[p].sent = <<>>
        /\ c'[p] # c[p]
        => /\ store' = Empty
           /\ c'[p].nRefresh = 0 /\ c'[p].sent = <<>>
           /\ c[p].pc = "chk" => c'[p].pc = "rf_read"
           /\ c[p].pc = "rf_read" => c'[p].pc = "clr"
           /\ c[p].pc = "clr" => c'[p].pc \in {"clr", "cache_clr"}
           /\ c[p].pc = "cache_clr" =>
                 /\ c'[p].pc = "done" /\ c'[p].result = "SessionExpired"
                 /\ route' = "/" /\ c'[p].navigated]_vars

\* the first call of an app without a session has ended with 'Session
\* expired': nothing was sent and the store is empty
C28_Witness ==
    \E p \in Callers :
        /\ Reliable /\ calls = 1
        /\ c[p].pc = "done" /\ c[p].result = "SessionExpired"
        /\ c[p].nRefresh = 0 /\ c[p].sent = <<>>
        /\ store = Empty /\ route = "/"

\* C29: when the fetch of the first dispatch throws, the call ends with that
\* error in the same step: the store, the cache and the route are unchanged,
\* no refresh is started and nothing more is sent.
C29_NetworkErrorPropagates ==
    [][\A p \in Callers :
        c[p].pc = "wire" /\ c'[p].pc # "wire" /\ c'[p].resps = <<>> =>
            /\ c'[p].pc = "done" /\ c'[p].result = "NetworkFailure"
            /\ store' = store /\ cache' = cache /\ route' = route
            /\ c'[p].nRefresh = c[p].nRefresh
            /\ c'[p].sent = c[p].sent
            /\ c'[p].navigated = FALSE]_vars

\* the call of a logged-in app has ended with the network error of its first
\* dispatch, the session untouched
C29_Witness ==
    \E p \in Callers :
        /\ c[p].pc = "done" /\ c[p].result = "NetworkFailure"
        /\ c[p].resps = <<>> /\ Len(c[p].sent) = 1 /\ c[p].nRefresh = 0
        /\ store[ACCESS_TOKEN_KEY] = Some(AccessTok(1))
        /\ store[REFRESH_TOKEN_KEY] = Some(RefreshTok(1))
        /\ cache = TRUE /\ route = "/permits"

\* C30: when the login and refresh responses carry no expires_in (the
\* multiplication gives NaN), storeTokens persists the access expiry "NaN",
\* every access expiry in the store is "NaN", isAccessTokenExpired is false
\* for it at every instant, and the pre-flight check of apiClient.fetch goes
\* on to the request without a refresh.
C30_AbsentExpiresInNeverRefreshes ==
    [][\A p \in Callers :
        IsNaN(accessTtl) =>
            /\ (c[p].pc = "rf_srv" /\ c'[p].pc = "rf_store") =>
                  Written(c'[p].pending, TOKEN_EXPIRY_KEY) = Some(<<"N", "a", "N">>)
            /\ ~Falsy(store[TOKEN_EXPIRY_KEY]) =>
                  /\ store[TOKEN_EXPIRY_KEY] = Some(<<"N", "a", "N">>)
                  /\ \A t \in Instants \cup {2147483647} :
                        ~isAccessTokenExpired(store[TOKEN_EXPIRY_KEY], t)
                  /\ (c[p].pc = "chk" /\ c'[p] # c[p]) =>
                        c'[p].pc = "tok" /\ c'[p].nRefresh = c[p].nRefresh]_vars

\* 55 minutes after a login without expires_in, and again after a refresh
\* that a 401 forced, a call has passed the pre-flight check without a
\* refresh although the stored expiry is "NaN"
C30_Witness ==
    \E p \in Callers :
        /\ IsNaN(accessTtl) /\ now = 3300000
        /\ store[TOKEN_EXPIRY_KEY] = Some(<<"N", "a", "N">>)
        /\ c[p].pc = "tok" /\ c[p].nRefresh = 0
        /\ srvLatest = 2

\* C30 as stated: whenever expires_in is no number (absent or null), the
\* stored access expiry is not numeric and the pre-flight check never refreshes
C30_NonNumericExpiresInNeverRefreshes ==
    [][\A p \in Callers :
        accessTtl \in LackingExpiresIn =>
            /\ (c[p].pc = "rf_srv" /\ c'[p].pc = "rf_store") =>
                  IsNaN(parseInt(Written(c'[p].pending, TOKEN_EXPIRY_KEY)[1]))
            /\ ~Falsy(store[TOKEN_EXPIRY_KEY]) =>
                  /\ IsNaN(parseInt(store[TOKEN_EXPIRY_KEY][1]))
                  /\ (c[p].pc = "chk" /\ c'[p] # c[p]) => c'[p].pc = "tok"]_vars

QuiescentStore ==
    /\ orphans = {}
    /\ \A q \in Callers : c[q].pc \notin {"rf_store", "clr"} /\ c[q].pending = {}

\* C26: with a reliable store, whenever no storeTokens and no clearTokens
\* call is in progress the four keys are all present or all absent.
C26_AllOrNothing ==
    Reliable /\ QuiescentStore =>
        \/ \A k \in Keys : store[k] = null
        \/ \A k \in Keys : store[k] # null

\* the sites that react to a 401, or to a failed refresh, by showing '/'
UnauthorizedSites ==
    {"apiClient.fetch", "inspection.loadPermit", "sampleTesting.loadPermit", "loadPermits"}

\* C21: with a reliable store, on web and on native, whenever apiClient.fetch
\* or a handler of a screen reacts to a 401 or to a failed refresh by
\* navigating to '/', the four token keys are absent from the store at the
\* navigation.
C21_TokensClearedBeforeLogin ==
    [][\A p \in Callers :
        /\ Reliable /\ c[p].site \in UnauthorizedSites
        /\ ~c[p].navigated /\ c'[p].navigated /\ route' = "/"
        => store' = Empty]_vars

\* C22: in handleLogout, whatever the logout request does (any status, or a
\* rejected fetch), the handler goes on to clearTokens; with a reliable store
\* the four keys are absent when clearTokens has returned, and the handler
\* then clears the cached session data and shows '/'.
C22_LogoutBestEffort ==
    [][\A p \in Callers :
        Reliable /\ c[p].site = "handleLogout" =>
            /\ (c[p].pc = "lo_wire" /\ c'[p] # c[p]) =>
                  /\ c'[p].pc = "clr" /\ c'[p].pending = clearTokens
                  /\ store' = store /\ route' = route
            /\ (c[p].pc = "clr" /\ c'[p] # c[p]) =>
                  /\ c'[p].pc \in {"clr", "cache_clr"}
                  /\ c'[p].pc = "cache_clr" => store' = Empty
            /\ (c[p].pc = "cache_clr" /\ c'[p] # c[p]) =>
                  /\ c'[p].pc = "done" /\ c'[p].result = "LoggedOut"
                  /\ store' = Empty /\ ~cache' /\ route' = "/"]_vars

\* a logout on native whose request was answered 500 has ended: the store
\* and the cache are empty and the app shows '/'
C22_Witness ==
    \E p \in Callers :
        /\ Reliable /\ ~isWeb /\ c[p].site = "handleLogout"
        /\ c[p].pc = "done" /\ c[p].result = "LoggedOut"
        /\ c[p].resps = <<"500">>
        /\ c[p].sent[1].url = "/api/mobile/auth/logout"
        /\ store = Empty /\ ~cache /\ route = "/"

\* a logout on web whose request was rejected has ended in the same way
C22_WitnessThrown ==
    \E p \in Callers :
        /\ Reliable /\ isWeb /\ c[p].site = "handleLogout"
        /\ c[p].pc = "done" /\ c[p].result = "LoggedOut"
        /\ c[p].resps = <<>>
        /\ store = Empty /\ ~cache /\ route = "/"

\* C24: in handleLogin with a reliable store, storeTokens is started only by
\* a login response that carries an access_token; the store changes only by
\* the writes of that storeTokens; the app goes to '/permits' only in the
\* step after the last of the four writes, when the four keys hold the pair
\* of the response; a failed login ends in a step that leaves the store and
\* the route alone, and a handler that has not started storeTokens never
\* navigates.
C24_LoginStoresThenNavigates ==
    [][\A p \in Callers :
        Reliable /\ c[p].site = "handleLogin" /\ c'[p] # c[p] =>
            /\ c'[p].pending # {} /\ c[p].pending = {} =>
                  /\ c[p].pc = "li_wire" /\ c'[p].pc = "li_store"
                  /\ c'[p].data.access_token # <<>>
                  /\ c'[p].pending = storeTokens(c'[p].data.access_token,
                        c'[p].data.refresh_token, c'[p].data.expires_in,
                        c'[p].data.refresh_expires_in, now, c'[p].data.gen)
            /\ store' # store => c[p].pc = "li_store"
            /\ route' # route =>
                  /\ c[p].pc = "li_user" /\ route' = "/permits"
                  /\ \A k \in Keys :
                        /\ writer[k] = c[p].data.gen
                        /\ store[k] # null
                  /\ store[ACCESS_TOKEN_KEY] = Some(c[p].data.access_token)
                  /\ store[REFRESH_TOKEN_KEY] = Some(c[p].data.refresh_token)
            /\ c[p].pc = "li_wire" /\ c'[p].pc # "li_store" =>
                  /\ c'[p].pc \in {"done", "li_hung"}
                  /\ c'[p].pc = "done" => c'[p].result \in LoginFailures
                  /\ store' = store /\ route' = route /\ cache' = cache
                  /\ ~c'[p].navigated]_vars

\* a login on the app without a session has ended: pair 2 is stored whole and
\* the app shows '/permits'
C24_Witness ==
    \E p \in Callers :
        /\ Reliable /\ c[p].site = "handleLogin"
        /\ c[p].pc = "done" /\ c[p].result = "LoggedIn"
        /\ \A k \in Keys : writer[k] = 2
        /\ store[ACCESS_TOKEN_KEY] = Some(AccessTok(2))
        /\ route = "/permits" /\ cache

\* a login that timed out has ended: nothing is stored, the app shows '/'
C24_WitnessFailed ==
    \E p \in Callers :
        /\ Reliable /\ c[p].site = "handleLogin"
        /\ c[p].pc = "done" /\ c[p].result = "timeout"
        /\ store = Empty /\ route = "/" /\ ~c[p].navigated

\* the state of a call of loadPermits that has just been entered
LoadPermitsEntered == [IdleCall EXCEPT !.pc = "lps_chk", !.site = "loadPermits"]

\* C27: loadPermits keeps no count of its retries.  A 401 to a permits
\* request always calls refreshAccessToken; when that returns true (reliable
\* store) loadPermits is entered again in the state of a first call, however
\* many requests it has sent; every dispatch sends one more permits request;
\* and loadPermits completes only by a response other than 401, by a rejected
\* fetch, or by the logout after a failed refresh.
C27_LoadPermitsUnbounded ==
    [][\A p \in Callers :
        Reliable /\ c[p].site = "loadPermits" /\ c'[p] # c[p] =>
            /\ (c[p].pc = "lps_wire" /\ c'[p].pc # "done") =>
                  /\ c'[p].resps = Append(c[p].resps, "401")
                  /\ c'[p].pc = "rf_read" /\ c'[p].phase = "post"
            /\ (c[p].pc = "rf_store" /\ c'[p].pc # "rf_store" /\ c[p].phase = "post") =>
                  /\ c'[p] = [LoadPermitsEntered EXCEPT !.sent = c[p].sent,
                                                        !.resps = c[p].resps,
                                                        !.nRefresh = c[p].nRefresh]
                  /\ c[p].nRefresh >= Len(c[p].sent)
            /\ (c[p].pc = "lps_tok") =>
                  /\ c'[p].pc = "lps_wire"
                  /\ Len(c'[p].sent) = Len(c[p].sent) + 1
            /\ (c'[p].pc = "done") =>
                  \/ /\ c[p].pc = "lps_wire"
                     /\ c'[p].result \in (Statuses \ {"401"}) \cup {"NetworkFailure"}
                  \/ c[p].pc = "cache_clr" /\ c'[p].result = "LoggedOut"]_vars

\* one call of loadPermits has its third permits request in flight, after two
\* 401 responses and two successful refreshes: more than the two requests
\* and one refresh of apiClient.fetch
C27_Witness ==
    \E p \in Callers :
        /\ Reliable /\ c[p].site = "loadPermits"
        /\ c[p].pc = "lps_wire"
        /\ Len(c[p].sent) = 3 /\ c[p].resps = <<"401", "401">>
        /\ c[p].nRefresh = 2 /\ srvLatest = 3

====
